---------------------------- MODULE Spec2Model ----------------------------
(***************************************************************************)
(* omero-mkngff: the `setup`, `sql` and `symlink` sub-commands of          *)
(* MkngffControl                                                          *)
(* (src/src/omero_mkngff/__init__.py).                                     *)
(*                                                                         *)
(* Text (paths, prefixes) is a sequence of one-character strings, so that  *)
(* str.replace, str.startswith, rsplit and the f-string concatenations are *)
(* computed character by character, as Python computes them.  File and     *)
(* directory names are atoms (TLA+ strings); Chars spells an atom out.     *)
(*                                                                         *)
(* The container on disk is `fs`: a function from a directory (its path    *)
(* below the container root, a sequence of names) to that directory's      *)
(* listing, in the order Path.iterdir yields it.                           *)
(***************************************************************************)
EXTENDS Naturals, Sequences, FiniteSets, TLC

VARIABLES
    fs,            \* container tree: directory -> listing (sequence of entries)
    target,        \* args.symlink_target, as path segments below "/"
    targetExists,  \* whether args.symlink_target exists on disk
    dirs,          \* directories made by os.makedirs (texts)
    links,         \* symlinks made by os.symlink: records source/target/isdir
    pc,            \* position of the running command
    op,            \* "setup" | "sql" | "symlink" | "none"
    repoGiven,     \* args.symlink_repo is set (sql); always TRUE for symlink
    prefix,        \* get_prefix's return value (text)
    walked,        \* what self.walk yielded, in order
    rows,          \* the rows the sql loop appended, in order
    setid_target,  \* None or <<row_full_path, row_name>>
    out,           \* what ctx.out has written in this run, statement by statement
    died,          \* "" or the error that ended the run
    startDirs,     \* dirs when the run was invoked
    startLinks     \* links when the run was invoked

vars == <<fs, target, targetExists, dirs, links, pc, op, repoGiven, prefix,
          walked, rows, setid_target, out, died, startDirs, startLinks>>

-----------------------------------------------------------------------------
(* Bounds of the model *)

\* number of entries (files and directories) the generated trees hold below the root
MaxEntries == 4

-----------------------------------------------------------------------------
(* Text *)

Chars(n) ==
    CASE n = ".zattrs"          -> <<".", "z", "a", "t", "t", "r", "s">>
      [] n = ".zarray"          -> <<".", "z", "a", "r", "r", "a", "y">>
      [] n = ".zgroup"          -> <<".", "z", "g", "r", "o", "u", "p">>
      [] n = "METADATA.ome.xml" -> <<"M", "E", "T", "A", "D", "A", "T", "A", ".",
                                     "o", "m", "e", ".", "x", "m", "l">>
      [] n = "data"             -> <<"d", "a", "t", "a">>
      [] n = "x.zarr"           -> <<"x", ".", "z", "a", "r", "r">>
      [] n = "srv"              -> <<"s", "r", "v">>
      [] n = "root"             -> <<"r", "o", "o", "t">>
      [] n = "a.txt"            -> <<"a", ".", "t", "x", "t">>
      [] n = "g"                -> <<"g">>
      [] n = "arr"              -> <<"a", "r", "r">>
      [] n = "0"                -> <<"0">>
      [] n = "1"                -> <<"1">>
      [] n = "base"             -> <<"b", "a", "s", "e">>
      [] n = "xyz"              -> <<"x", "y", "z">>
      [] n = "xyz_mkngff"       -> <<"x", "y", "z", "_", "m", "k", "n", "g", "f", "f">>
      [] n = "repo"             -> <<"r", "e", "p", "o">>

Slash == <<"/">>

\* SUFFIX = "mkngff"
SUFFIX == <<"m", "k", "n", "g", "f", "f">>

RECURSIVE JoinSegs(_)
\* "/".join(segs)
JoinSegs(segs) ==
    IF segs = <<>> THEN <<>>
    ELSE IF Len(segs) = 1 THEN Chars(segs[1])
    ELSE Chars(segs[1]) \o Slash \o JoinSegs(Tail(segs))

\* str(Path) of the absolute path with these segments
PathStr(segs) == Slash \o JoinSegs(segs)

Front(s) == SubSeq(s, 1, Len(s) - 1)

\* str(Path.parent)
ParentStr(segs) == PathStr(Front(segs))

StartsWith(s, p) == Len(s) >= Len(p) /\ SubSeq(s, 1, Len(p)) = p

EndsWith(s, p) == Len(s) >= Len(p) /\ SubSeq(s, Len(s) - Len(p) + 1, Len(s)) = p

RECURSIVE Replace(_, _)
\* s.replace(old, ""): every non-overlapping occurrence, left to right
Replace(s, old) ==
    IF Len(s) < Len(old) \/ old = <<>> THEN s
    ELSE IF SubSeq(s, 1, Len(old)) = old
         THEN Replace(SubSeq(s, Len(old) + 1, Len(s)), old)
         ELSE <<s[1]>> \o Replace(Tail(s), old)

\* position of the last "/" of s, 0 when there is none
LastSlash(s) ==
    LET at == {i \in 1..Len(s) : s[i] = "/"}
    IN  IF at = {} THEN 0 ELSE CHOOSE i \in at : \A j \in at : j <= i

\* prefix.rsplit("/", 1)
RSplit(s) ==
    LET k == LastSlash(s)
    IN  IF k = 0 THEN <<s>>
        ELSE <<SubSeq(s, 1, k - 1), SubSeq(s, k + 1, Len(s))>>

\* os.path.join(a, b)
PathJoin(a, b) ==
    IF StartsWith(b, Slash) THEN b
    ELSE IF a = <<>> \/ EndsWith(a, Slash) THEN a \o b
    ELSE a \o Slash \o b

-----------------------------------------------------------------------------
(* The container tree *)

None == <<>>

FileNames == {".zattrs", "METADATA.ome.xml", ".zarray", ".zgroup", "0"}
DirNames == {"data"}

File(n) == [name |-> n, dir |-> FALSE]
Dir(n) == [name |-> n, dir |-> TRUE]

NamesIn(f, d) == {f[d][i].name : i \in 1..Len(f[d])}

RECURSIVE SumLen(_, _)
SumLen(f, ds) ==
    IF ds = {} THEN 0
    ELSE LET d == CHOOSE x \in ds : TRUE
         IN  Len(f[d]) + SumLen(f, ds \ {d})

\* number of entries below the root
Entries(f) == SumLen(f, DOMAIN f)

EmptyTree == (<<>> :> <<>>)

\* root/{a.txt, g/.zgroup, g/arr/.zarray, g/arr/0, g/arr/1}
ScenarioTree ==
    (<<>> :> <<File("a.txt"), Dir("g")>>)
    @@ (<<"g">> :> <<File(".zgroup"), Dir("arr")>>)
    @@ (<<"g", "arr">> :> <<File(".zarray"), File("0"), File("1")>>)

ScenarioTarget == <<"srv", "root">>

Targets == {<<"srv", "x.zarr">>, <<"data", "x.zarr">>, <<"x.zarr">>}

\* (p / name).exists()
HasChild(f, p, n) == p \in DOMAIN f /\ n \in NamesIn(f, p)

\* is_array = (p / ".zarray").exists()
IsArray(f, p) == HasChild(f, p, ".zarray")

\* (p / ".zgroup").exists()
IsGroup(f, p) == HasChild(f, p, ".zgroup")

\* IsNode without the chunk-directory test: every directory is yielded
IsNodeAlways(f, p) == TRUE

\* is_array or (p / ".zgroup").exists(): the directory is yielded
IsNode(f, p) == IsArray(f, p) \/ IsGroup(f, p)

\* Recurse without the is_array test: arrays are walked too
RecurseAlways(f, p) == TRUE

\* if not is_array: yield from self.walk(p)
Recurse(f, p) == ~IsArray(f, p)

OCTET == "application/octet-stream"
DIRECTORY == "Directory"

\* one yielded tuple (p.parent, p.name, mime); parent is kept as the path below the root
Yield(parent, name, mime) == [parent |-> parent, name |-> name, mime |-> mime]

RECURSIVE WalkFrom(_, _, _)
\* self.walk(path), from the i-th child of path on
WalkFrom(f, path, i) ==
    IF i > Len(f[path]) THEN <<>>
    ELSE LET e == f[path][i]
             p == Append(path, e.name)
             here == IF ~e.dir
                     THEN <<Yield(path, e.name, OCTET)>>
                     ELSE IF IsNode(f, p)
                          THEN <<Yield(path, e.name, DIRECTORY)>>
                               \o (IF Recurse(f, p) THEN WalkFrom(f, p, 1) ELSE <<>>)
                          ELSE <<>>
         IN  here \o WalkFrom(f, path, i + 1)

walk(f) == WalkFrom(f, <<>>, 1)

-----------------------------------------------------------------------------
(* The row loop of sql *)

\* RowPath with the container root itself removed instead of its parent
RowPathBelowRoot(tgt, parent) ==
    LET replaced == Replace(PathStr(tgt \o parent), PathStr(tgt))
    IN  IF StartsWith(replaced, Slash) THEN Tail(replaced) ELSE replaced

\* str(row_path).replace(f"{symlink_path.parent}", ""), then drop one leading "/"
RowPath(tgt, parent) ==
    LET replaced == Replace(PathStr(tgt \o parent), ParentStr(tgt))
    IN  IF StartsWith(replaced, Slash) THEN Tail(replaced) ELSE replaced

\* f"{prefix_path}/{prefix_name}_{SUFFIX}/"
NewPrefix(pfx) ==
    LET sp == RSplit(pfx)
    IN  sp[1] \o Slash \o sp[2] \o <<"_">> \o SUFFIX \o Slash

\* row_full_path = f"{prefix_path}/{prefix_name}_{SUFFIX}/{row_path}"
RowFullPath(pfx, tgt, parent) == NewPrefix(pfx) \o RowPath(tgt, parent)

\* Retarget read as `A and (B or C)`: the first descriptor found is kept
RetargetFirstOnly(cur, name) ==
    cur = None /\ (name = ".zattrs" \/ name = "METADATA.ome.xml")

\* the condition of line 203: `A and B or C` is `(A and B) or C`
Retarget(cur, name) ==
    (cur = None /\ name = ".zattrs") \/ name = "METADATA.ome.xml"

RECURSIVE SetIdFold(_, _, _, _)
\* setid_target after the loop has consumed ws[i..]
SetIdFold(cur, ws, pfx, tgt) ==
    IF ws = <<>> THEN cur
    ELSE LET w == Head(ws)
             nxt == IF Retarget(cur, w.name)
                    THEN <<RowFullPath(pfx, tgt, w.parent), w.name>>
                    ELSE cur
         IN  SetIdFold(nxt, Tail(ws), pfx, tgt)

\* ROW.format(PATH=f"{row_full_path}/", NAME=row_name, MIME=row_mime)
Row(pfx, tgt, w) ==
    [path |-> RowFullPath(pfx, tgt, w.parent) \o Slash, name |-> w.name, mime |-> w.mime]

BuildRows(pfx, tgt, ws) == [i \in 1..Len(ws) |-> Row(pfx, tgt, ws[i])]

-----------------------------------------------------------------------------
(* The emitted script, statement by statement *)

\* SETUP: CREATE OR REPLACE FUNCTION mkngff_fileset(...)
SetupStmt == [stmt |-> "create or replace function mkngff_fileset"]

\* line 216: the UPDATE of pixels name/path
UpdateStmt(sid) == [stmt |-> "update", path |-> sid[1], name |-> sid[2]]

\* TEMPLATE: begin; select mkngff_fileset(...); commit;
TemplateStmts(pfx, rs) ==
    << [stmt |-> "begin"],
       [stmt |-> "select mkngff_fileset", prefix |-> NewPrefix(pfx), rows |-> rs],
       [stmt |-> "commit"] >>

-----------------------------------------------------------------------------
(* Symlink topology *)

\* args.symlink_repo
Repo == PathStr(<<"repo">>)

\* rv[0].templatePrefix.val
TemplatePrefixes ==
    { PathStr(<<"base", "xyz">>) \o Slash, PathStr(<<"base", "xyz">>),
      JoinSegs(<<"base", "xyz">>) \o Slash }

\* get_prefix: drop ending "/"
DropEndingSlash(tp) == IF EndsWith(tp, Slash) THEN Front(tp) ELSE tp

\* prefix_dir = os.path.join(symlink_repo, prefix)
PrefixDir(pfx) == PathJoin(Repo, pfx)

\* symlink_dir = f"{prefix_dir}_{SUFFIX}"
SymlinkDir(pfx) == PrefixDir(pfx) \o <<"_">> \o SUFFIX

\* symlink_source = os.path.join(symlink_dir, symlink_path.name)
SymlinkSource(pfx, tgt) == PathJoin(SymlinkDir(pfx), Chars(tgt[Len(tgt)]))

\* a path os.symlink finds taken
Taken(src) == src \in dirs \/ \E l \in links : l.source = src

-----------------------------------------------------------------------------
(* Initial states *)

Init ==
    /\ \/ fs = EmptyTree /\ target \in Targets /\ targetExists = TRUE
       \/ fs = ScenarioTree /\ target = ScenarioTarget /\ targetExists = TRUE
       \/ fs = EmptyTree /\ target \in Targets /\ targetExists = FALSE
    /\ dirs = {}
    /\ links = {}
    /\ pc = "idle"
    /\ op = "none"
    /\ repoGiven = FALSE
    /\ prefix = <<>>
    /\ walked = <<>>
    /\ rows = <<>>
    /\ setid_target = None
    /\ out = <<>>
    /\ died = ""
    /\ startDirs = {}
    /\ startLinks = {}

run == <<op, repoGiven, prefix, walked, rows, setid_target, out, died, startDirs, startLinks>>
disk == <<dirs, links>>
tree == <<fs, target, targetExists>>

-----------------------------------------------------------------------------
(* The environment fills the container before the command is invoked *)

Touch(d, n) ==
    /\ pc = "idle" /\ targetExists
    /\ Entries(fs) < MaxEntries
    /\ d \in DOMAIN fs /\ n \notin NamesIn(fs, d)
    /\ fs' = [fs EXCEPT ![d] = Append(@, File(n))]
    /\ UNCHANGED <<target, targetExists, disk, pc, run>>

Mkdir(d, n) ==
    /\ pc = "idle" /\ targetExists
    /\ Entries(fs) < MaxEntries
    /\ d \in DOMAIN fs /\ n \notin NamesIn(fs, d)
    /\ fs' = [fs EXCEPT ![d] = Append(@, Dir(n))] @@ (Append(d, n) :> <<>>)
    /\ UNCHANGED <<target, targetExists, disk, pc, run>>

-----------------------------------------------------------------------------
(* The command *)

\* ctx.die(rc, msg), or an exception that leaves the command
Die(why) ==
    /\ pc' = "died"
    /\ died' = why

\* `omero mkngff setup`, `omero mkngff sql ...` or `omero mkngff symlink ...` is
\* run; each run has its own output
Invoke(o, r) ==
    /\ pc \in {"idle", "done", "died"}
    /\ o = "symlink" => r
    /\ o = "setup" => ~r
    /\ op' = o
    /\ repoGiven' = r
    /\ pc' = IF o = "setup" THEN "emit_setup" ELSE "get_prefix"
    /\ prefix' = <<>>
    /\ walked' = <<>>
    /\ rows' = <<>>
    /\ setid_target' = None
    /\ out' = <<>>
    /\ died' = ""
    /\ startDirs' = dirs
    /\ startLinks' = links
    /\ UNCHANGED <<tree, disk>>

\* setup: self.ctx.out(SETUP)
EmitSetup ==
    /\ pc = "emit_setup"
    /\ out' = Append(out, SetupStmt)
    /\ pc' = "done"
    /\ UNCHANGED <<tree, disk, op, repoGiven, prefix, walked, rows, setid_target, died,
                   startDirs, startLinks>>

\* get_prefix: n filesets answer the query
GetPrefix(n, tp) ==
    /\ pc = "get_prefix"
    /\ IF n # 1
       THEN Die("400 wrong number of filesets") /\ UNCHANGED prefix
       ELSE /\ prefix' = DropEndingSlash(tp)
            /\ pc' = IF op = "sql" THEN "check_target" ELSE "create_symlink"
            /\ UNCHANGED died
    /\ UNCHANGED <<tree, disk, op, repoGiven, walked, rows, setid_target, out,
                   startDirs, startLinks>>

\* sql lines 183-190
CheckTarget ==
    /\ pc = "check_target"
    /\ IF ~targetExists
       THEN Die("401 symlink target does not exist")
       ELSE pc' = (IF repoGiven THEN "create_symlink" ELSE "walk") /\ UNCHANGED died
    /\ UNCHANGED <<tree, disk, op, repoGiven, prefix, walked, rows, setid_target, out,
                   startDirs, startLinks>>

\* create_symlink; legacy: os.path.exists(prefix_dir)
CreateSymlink(legacy) ==
    /\ pc = "create_symlink"
    /\ IF ~legacy
       THEN Die("402 fileset dir does not exist") /\ UNCHANGED disk
       ELSE /\ dirs' = dirs \cup {SymlinkDir(prefix)}
            /\ IF Taken(SymlinkSource(prefix, target))
               THEN Die("FileExistsError") /\ UNCHANGED links
               ELSE /\ links' = links \cup
                          {[source |-> SymlinkSource(prefix, target),
                            target |-> PathStr(target),
                            isdir  |-> targetExists]}
                    /\ pc' = IF op = "sql" THEN "walk" ELSE "done"
                    /\ UNCHANGED died
    /\ UNCHANGED <<tree, op, repoGiven, prefix, walked, rows, setid_target, out,
                   startDirs, startLinks>>

\* sql lines 193-211: the loop over self.walk(symlink_path)
WalkRows ==
    /\ pc = "walk"
    /\ walked' = walk(fs)
    /\ rows' = BuildRows(prefix, target, walk(fs))
    /\ setid_target' = SetIdFold(None, walk(fs), prefix, target)
    /\ pc' = "emit_update"
    /\ UNCHANGED <<tree, disk, op, repoGiven, prefix, out, died, startDirs, startLinks>>

\* a read of the tree fails: the exception leaves sql
WalkFails ==
    /\ pc = "walk"
    /\ Die("OSError")
    /\ UNCHANGED <<tree, disk, op, repoGiven, prefix, walked, rows, setid_target, out,
                   startDirs, startLinks>>

\* sql lines 214-216
EmitUpdate ==
    /\ pc = "emit_update"
    /\ IF setid_target = None
       THEN Die("TypeError") /\ UNCHANGED out
       ELSE /\ out' = Append(out, UpdateStmt(setid_target))
            /\ pc' = "emit_template"
            /\ UNCHANGED died
    /\ UNCHANGED <<tree, disk, op, repoGiven, prefix, walked, rows, setid_target,
                   startDirs, startLinks>>

\* sql lines 218-226; get_uuid is called while the arguments of format are evaluated
EmitTemplate(managed) ==
    /\ pc = "emit_template"
    /\ IF ~managed
       THEN Die("402 failed to find managed repository") /\ UNCHANGED out
       ELSE /\ out' = out \o TemplateStmts(prefix, rows)
            /\ pc' = "done"
            /\ UNCHANGED died
    /\ UNCHANGED <<tree, disk, op, repoGiven, prefix, walked, rows, setid_target,
                   startDirs, startLinks>>

Next ==
    \/ \E d \in DOMAIN fs, n \in FileNames : Touch(d, n)
    \/ \E d \in DOMAIN fs, n \in DirNames : Mkdir(d, n)
    \/ \E o \in {"setup", "sql", "symlink"}, r \in BOOLEAN : Invoke(o, r)
    \/ EmitSetup
    \/ \E n \in 0..2, tp \in TemplatePrefixes : GetPrefix(n, tp)
    \/ CheckTarget
    \/ \E legacy \in BOOLEAN : CreateSymlink(legacy)
    \/ WalkRows
    \/ WalkFails
    \/ EmitUpdate
    \/ \E managed \in BOOLEAN : EmitTemplate(managed)

Spec == Init /\ [][Next]_vars

-----------------------------------------------------------------------------
(* Vocabulary of the properties *)

\* the row loop of this run has finished
AfterWalk ==
    \/ pc \in {"emit_update", "emit_template"}
    \/ pc = "done" /\ op = "sql"
    \/ pc = "died" /\ died \in {"TypeError", "402 failed to find managed repository"}

\* the run has ended
Ended == pc \in {"done", "died"}

StmtAt(s) == {i \in 1..Len(out) : out[i].stmt = s}

Descriptors == {".zattrs", "METADATA.ome.xml"}

DescriptorRows == {i \in 1..Len(walked) : walked[i].name \in Descriptors}
MetadataRows == {i \in 1..Len(walked) : walked[i].name = "METADATA.ome.xml"}
ZattrsRows == {i \in 1..Len(walked) : walked[i].name = ".zattrs"}

Least(S) == CHOOSE i \in S : \A j \in S : i <= j
Greatest(S) == CHOOSE i \in S : \A j \in S : j <= i

\* what setid_target holds when the i-th row is the one picked
Picked(i) == <<Front(rows[i].path), rows[i].name>>

\* the directories of the tree, the root included
AllDirs == DOMAIN fs
ArrayNodes == {d \in AllDirs : IsArray(fs, d)}
GroupNodes == {d \in AllDirs : IsGroup(fs, d)}

\* the on-disk location of the i-th yielded entry, below the root
Where(i) == Append(walked[i].parent, walked[i].name)

\* the directories the i-th yielded entry lies beneath, from the k-th level down
\* (level 0 is the container root)
Above(i, k) == {SubSeq(walked[i].parent, 1, n) : n \in k..Len(walked[i].parent)}

\* how many times directory d was yielded as a row of its own
TimesEmitted(d) ==
    Cardinality({i \in 1..Len(walked) : Where(i) = d /\ walked[i].mime = DIRECTORY})

\* some yielded entry lies beneath d
EmitsBeneath(d) == \E i \in 1..Len(walked) : d \in Above(i, 0)

BaseXyz == PathStr(<<"base", "xyz">>)

-----------------------------------------------------------------------------
(* C1 *)

\* C1 (as claimed): in the complete script the UPDATE of pixels stands after
\* BEGIN and before COMMIT, in the transaction of the mkngff_fileset call.
C1_UpdateInsideTransaction ==
    (pc = "done" /\ op = "sql") =>
        \E b \in StmtAt("begin"), u \in StmtAt("update"),
           c \in StmtAt("select mkngff_fileset"), e \in StmtAt("commit") :
            b < u /\ u < c /\ c < e

-----------------------------------------------------------------------------
(* C2 *)

\* C2 (as claimed): a run that ends in an error has written nothing; the output
\* of an ended run is the complete script or empty.
C2_NoPartialScript ==
    (op = "sql" /\ Ended) =>
        /\ pc = "died" => out = <<>>
        /\ out = <<>> \/ (StmtAt("update") # {} /\ StmtAt("commit") # {})

-----------------------------------------------------------------------------
(* C3 *)

\* C3 (as claimed): after the walk, SetIdTarget is the first yielded row named
\* .zattrs or METADATA.ome.xml; later matches are ignored.
C3_FirstDescriptorWins ==
    AfterWalk =>
        setid_target = IF DescriptorRows = {} THEN None
                       ELSE Picked(Least(DescriptorRows))

\* C3 (amended): after the walk, SetIdTarget is the last yielded row named
\* METADATA.ome.xml when there is one, else the first row named .zattrs, else
\* nothing.
C3_LastMetadataElseFirstZattrs ==
    AfterWalk =>
        setid_target = IF MetadataRows # {} THEN Picked(Greatest(MetadataRows))
                       ELSE IF ZattrsRows # {} THEN Picked(Least(ZattrsRows))
                       ELSE None

\* several METADATA.ome.xml rows were yielded and the pick is not the first match
C3_Witness ==
    /\ AfterWalk
    /\ Cardinality(MetadataRows) >= 2
    /\ setid_target = Picked(Greatest(MetadataRows))
    /\ setid_target # Picked(Least(DescriptorRows))

-----------------------------------------------------------------------------
(* C4 *)

\* C4 (as claimed): a run that aborts for lack of a metadata descriptor has
\* written no output and has made no directory and no symlink.
C4_NoDescriptorNoEffects ==
    (pc = "died" /\ died = "TypeError") =>
        out = <<>> /\ dirs = startDirs /\ links = startLinks

-----------------------------------------------------------------------------
(* C5 *)

\* C5 (as claimed): in a run that is to create the symlink (sql with
\* symlink_repo, or symlink), a symlink target missing on disk ends the run in
\* an error with no directory and no symlink made.
C5_MissingTargetNoMutation ==
    (~targetExists /\ repoGiven /\ Ended) =>
        pc = "died" /\ dirs = startDirs /\ links = startLinks

-----------------------------------------------------------------------------
(* C6 *)

\* the symlink create_symlink is to make was there, identical, when the run began
SameLinkAtStart ==
    \E l \in startLinks :
        /\ l.source = SymlinkSource(prefix, target)
        /\ l.target = PathStr(target)
        /\ l.isdir = targetExists

\* C6 (as claimed): create_symlink run again with the arguments of an earlier
\* successful call ends without error and leaves directory and symlink as they
\* were.
C6_SecondCreateSymlinkIsNoOp ==
    (SameLinkAtStart /\ repoGiven /\ pc \in {"walk", "done", "died"}
        /\ died \notin {"400 wrong number of filesets",
                        "401 symlink target does not exist",
                        "402 fileset dir does not exist"}) =>
        died # "FileExistsError" /\ dirs = startDirs /\ links = startLinks

-----------------------------------------------------------------------------
(* C7 *)

ScenarioRun == AfterWalk /\ fs = ScenarioTree /\ target = ScenarioTarget /\ prefix = BaseXyz

\* C7 (as claimed): for the scenario tree the rows are (".../a.txt/", "a.txt"),
\* (".../g/", "g"), (".../g/arr/", "arr") under /base/xyz_mkngff/, and no other.
C7_RowsAsClaimed ==
    ScenarioRun =>
        rows = << [path |-> PathStr(<<"base", "xyz_mkngff", "a.txt">>) \o Slash,
                   name |-> "a.txt", mime |-> OCTET],
                  [path |-> PathStr(<<"base", "xyz_mkngff", "g">>) \o Slash,
                   name |-> "g", mime |-> DIRECTORY],
                  [path |-> PathStr(<<"base", "xyz_mkngff", "g", "arr">>) \o Slash,
                   name |-> "arr", mime |-> DIRECTORY] >>

\* C7 (amended): for the scenario tree at /srv/root the rows built are, in
\* order, a.txt and g under /base/xyz_mkngff/root/, then .zgroup and arr under
\* /base/xyz_mkngff/root/g/; nothing of g/arr is a row; no descriptor is found
\* and the run does not complete.
C7_ScenarioRows ==
    ScenarioRun =>
        /\ rows = << [path |-> PathStr(<<"base", "xyz_mkngff", "root">>) \o Slash,
                      name |-> "a.txt", mime |-> OCTET],
                     [path |-> PathStr(<<"base", "xyz_mkngff", "root">>) \o Slash,
                      name |-> "g", mime |-> DIRECTORY],
                     [path |-> PathStr(<<"base", "xyz_mkngff", "root", "g">>) \o Slash,
                      name |-> ".zgroup", mime |-> OCTET],
                     [path |-> PathStr(<<"base", "xyz_mkngff", "root", "g">>) \o Slash,
                      name |-> "arr", mime |-> DIRECTORY] >>
        /\ \A i \in 1..Len(rows) : rows[i].name \notin {"0", "1", ".zarray"}
        /\ setid_target = None
        /\ pc \in {"emit_update", "died"}
        /\ out = <<>>

\* the scenario's rows have been built
C7_Witness == ScenarioRun /\ pc = "emit_update" /\ Len(rows) = 4

-----------------------------------------------------------------------------
(* C8 *)

\* C8 (as claimed): no yielded directory is a chunk directory, no yielded entry
\* lies beneath a chunk directory, and none lies beneath a directory holding
\* .zarray, the container root included.
C8_NothingBeneathArraysRootIncluded ==
    AfterWalk =>
        \A i \in 1..Len(walked) :
            /\ walked[i].mime = DIRECTORY => IsNode(fs, Where(i))
            /\ \A d \in Above(i, 1) : IsNode(fs, d)
            /\ \A d \in Above(i, 0) : ~IsArray(fs, d)

\* C8 (amended): the same, for the directories below the container root; the
\* root itself is walked whatever it holds.
C8_NothingBeneathArraysBelowRoot ==
    AfterWalk =>
        \A i \in 1..Len(walked) :
            /\ walked[i].mime = DIRECTORY => IsNode(fs, Where(i))
            /\ \A d \in Above(i, 1) : IsNode(fs, d)
            /\ \A d \in Above(i, 1) : ~IsArray(fs, d)

\* an array below the root with content of its own was walked past, and so was
\* a chunk directory with content
C8_Witness ==
    /\ AfterWalk
    /\ walked # <<>>
    /\ \E d \in ArrayNodes : d # <<>> /\ Len(fs[d]) >= 2 /\ TimesEmitted(d) = 1
    /\ \E d \in AllDirs : d # <<>> /\ ~IsNode(fs, d) /\ fs[d] # <<>>

-----------------------------------------------------------------------------
(* C9 *)

ArraysNoGroups == ArrayNodes # {} /\ GroupNodes = {}

\* C9 (as claimed): with an array node and no group node in the tree, every
\* array node, wherever it sits, is yielded once and nothing beneath it is.
C9_EveryArrayOnce ==
    (AfterWalk /\ ArraysNoGroups) =>
        \A d \in ArrayNodes : TimesEmitted(d) = 1 /\ ~EmitsBeneath(d)

\* C9 (amended): with an array node and no group node in the tree, an array
\* node that is a child of the root is yielded once and nothing beneath it is;
\* an array node deeper down is not yielded, nor anything beneath it; the root,
\* when it is the array node, is not yielded and its files are.
C9_ChildArraysOnce ==
    (AfterWalk /\ ArraysNoGroups) =>
        \A d \in ArrayNodes :
            /\ Len(d) = 1 => TimesEmitted(d) = 1 /\ ~EmitsBeneath(d)
            /\ Len(d) > 1 => TimesEmitted(d) = 0 /\ ~EmitsBeneath(d)
            /\ Len(d) = 0 =>
                   /\ TimesEmitted(d) = 0
                   /\ \A k \in 1..Len(fs[d]) :
                          ~fs[d][k].dir =>
                              \E i \in 1..Len(walked) :
                                  walked[i] = Yield(d, fs[d][k].name, OCTET)

\* an array node that is a child of the root, with content, was yielded, in a
\* tree that also holds an array node deeper down
C9_Witness ==
    /\ AfterWalk /\ ArraysNoGroups
    /\ \E d \in ArrayNodes : Len(d) = 1 /\ Len(fs[d]) >= 2 /\ TimesEmitted(d) = 1
    /\ \E d \in ArrayNodes : Len(d) = 2

-----------------------------------------------------------------------------
(* C10 *)

\* C10 (as claimed): each row's path is the new prefix followed by the entry's
\* directory from the container root's name on, and entries of different
\* directories get different paths.
C10_RewritePreservesStructure ==
    AfterWalk =>
        /\ \A i \in 1..Len(rows) :
               rows[i].path = NewPrefix(prefix)
                              \o JoinSegs(<<target[Len(target)]>> \o walked[i].parent)
                              \o Slash
        /\ \A i, j \in 1..Len(rows) :
               walked[i].parent # walked[j].parent => rows[i].path # rows[j].path

=============================================================================
